---- MODULE Spec2Model ----
(***************************************************************************)
(* The detection cycles of the Protego safety application: the background  *)
(* accelerometer service (BackgroundSafetyService.ts), the manual SOS      *)
(* handler (SosScreen.tsx), the MapScreen motion monitor and SOS button    *)
(* (MapScreen.tsx) and the HTTP helper request() they all go through       *)
(* (api/client.ts).                                                        *)
(*                                                                         *)
(* JavaScript runs one task at a time: an action of this module is one     *)
(* task, from the event that resumes the code (a sensor sample, a timer, a *)
(* network event, a native call returning) to the next await that has to   *)
(* wait for such an event.                                                 *)
(***************************************************************************)
EXTENDS Integers, Sequences, FiniteSets, TLC

\* ------------------------------------------------------------ bounds
\* The longest run of cycles opened within one excursion above threshold.
MaxRun == 2

\* The most runs of the background task (BackgroundService.start calls that
\* start one).
MaxTasks == 2

\* The most times the decision of one cycle is delivered to the statements
\* that alert the user.
MaxDeliver == 2

\* ------------------------------------------------- program constants
\* if (magnitude > 15)
Threshold == 15

Procs == {"bg", "sos", "map", "map2"}

\* The calls of MapScreen that can be in flight at once: each call of
\* handleMotionCheck or handleEmergency is an async activation of its own.
MapSlots == {"map", "map2"}

None == <<>>

\* Accelerometer samples {x, y, z}: resting gravity, two samples with
\* x*x + y*y + z*z = 225 exactly, and two above the threshold (300, 226).
Samples ==
    { <<0, 0, 10>>,
      <<10, 10, 5>>, <<0, 0, -15>>,
      <<10, 10, 10>>, <<-9, -12, 1>> }

\* The synthetic sample of a manual trigger.
ZeroSample == <<0, 0, 0>>

\* A response body as parseJson returns it: null for an empty body, else the
\* parsed object, of which the cycles read one flag (anomaly_detected,
\* emergency_triggered, is_emergency) and, in SosScreen, fused_risk_score
\* (in tenths).
Scores == {4, 5}
Payloads == {None} \cup [flag : BOOLEAN, score : Scores]

\* The feature vector extractMFCC resolves with: 13 coefficients, whose
\* values are random and which no code of the application reads.
Mfcc == "mfcc"

\* currentLocation of MapScreen: null until the first position fix.
Locations == {None, <<12, 77>>}

\* const options of BackgroundSafetyService.ts (the notification it shows).
options == [taskName |-> "ProtegoSafety", taskTitle |-> "Protego is active"]

VARIABLES
    platform,      \* Platform.OS
    tab,           \* App: the tab shown, whose screen is mounted
    running,       \* BackgroundService.isRunning()
    subscriptions, \* live accelerometer subscriptions of the background task
    looping,       \* runs of veryIntensiveTask that are in the keep-alive loop
    micGranted,    \* the operating system's record: the application may
                   \* record audio (RECORD_AUDIO on Android)
    isProcessing,  \* BackgroundSafetyService.ts: let isProcessing
    pc,            \* per trigger source: the await its cycle is suspended at
    trigger,       \* per source: the accel argument of the cycle in flight
    req,           \* per source: phase of its request() call
    timerPending,  \* per source: the abort timer of request() is pending
    respOk,        \* per source: response.ok of the response fetch resolved with
    body,          \* per source: options.body of its request() call
    recording,     \* AudioRecord: the native recorder is started
    notifTitle,    \* taskTitle of the foreground notification
    sosSending,    \* SosScreen: sending
    sosStatus,     \* SosScreen: status
    sosReset,      \* SosScreen: a setTimeout(setStatus) timer is pending
    mapSending,    \* MapScreen: sending (the state, as last set)
    mapSeen,       \* MapScreen: sending as the last render saw it: what the
                   \* subscription callback, handleMotionCheck and the
                   \* button of that render read
    mapStatus,     \* MapScreen: status
    mapReset,      \* MapScreen: a setTimeout(setStatus) timer is pending
    alerts,        \* per source: what its cycle has shown the user so far, in
                   \* order: the titles of its Alert.alert dialogs and of its
                   \* notification updates
    \* observers (no code reads them)
    outcome,       \* per source: how its last cycle ended
    startCalls,    \* per source: AudioRecord.start() calls of its cycle
    stopCalls,     \* per source: AudioRecord.stop() calls of its cycle
    timedOut,      \* per source: the evaluation call of its cycle was aborted
    failure,       \* per source: a stage of its cycle failed
    rejected,      \* the promise of the background sensor callback rejected
    stages,        \* per source: the awaits its cycle has been suspended at,
                   \* in order
    settled,       \* per source: how the last request() call of its cycle
                   \* settled: "ok" (resolved), "status" (response not ok),
                   \* "transport", "abort", "body" (rejected), else "none"
    motion,        \* anomaly_detected of the answer checkMotion returned to the
                   \* background cycle: "true" or "false", "none" if it has
                   \* returned none
    lastEvent,     \* after a background sample delivery "below", "at" or
                   \* "above" (its x*x + y*y + z*z against 225), else "step"
    inRun,         \* the last background sample was above the threshold
    runOpened      \* background cycles opened in the current excursion

ctl == <<isProcessing, pc, trigger, outcome, sosSending, mapSending, rejected,
         stages>>
rec == <<recording, startCalls, stopCalls>>
ui  == <<sosStatus, sosReset, mapStatus, mapReset, notifTitle, alerts>>
net == <<req, timerPending, respOk, body>>
env == <<platform, tab, mapSeen>>
obs == <<timedOut, failure, lastEvent, inRun, runOpened>>
svc == <<running, subscriptions, looping>>
vars == <<ctl, ui, rec, net, env, obs, svc, micGranted, settled, motion>>

\* --------------------------------------------------------- magnitude
SumSq(s) == s[1] * s[1] + s[2] * s[2] + s[3] * s[3]

\* floor(sqrt(n)) by bisection on lo..hi, lo*lo <= n < (hi+1)*(hi+1).
RECURSIVE ISqrtIn(_, _, _)
ISqrtIn(n, lo, hi) ==
    IF lo >= hi THEN lo
    ELSE LET mid == (lo + hi + 1) \div 2
         IN  IF mid * mid <= n THEN ISqrtIn(n, mid, hi)
             ELSE ISqrtIn(n, lo, mid - 1)

\* Math.sqrt(x * x + y * y + z * z), in hundredths, rounded down.
Magnitude(s) == ISqrtIn(10000 * SumSq(s), 0, 100 * 100)

\* (mutant) magnitude >= 15: the threshold taken as inclusive.
AtOrAboveThreshold(s) == Magnitude(s) >= 100 * Threshold

\* magnitude > 15
AboveThreshold(s) == Magnitude(s) > 100 * Threshold

\* Where the sample lies: x*x + y*y + z*z against the square of the threshold.
SampleClass(s) ==
    IF SumSq(s) < Threshold * Threshold THEN "below"
    ELSE IF SumSq(s) = Threshold * Threshold THEN "at"
    ELSE "above"

\* --------------------------------------------------------------- init
Init ==
    /\ platform \in {"android", "ios"}
    /\ tab = "home"
    /\ running = FALSE
    /\ subscriptions = 0
    /\ looping = 0
    /\ micGranted = FALSE
    /\ isProcessing = FALSE
    /\ pc = [p \in Procs |-> "idle"]
    /\ trigger = [p \in Procs |-> None]
    /\ req = [p \in Procs |-> "none"]
    /\ timerPending = [p \in Procs |-> FALSE]
    /\ respOk = [p \in Procs |-> FALSE]
    /\ body = [p \in Procs |-> None]
    /\ recording = FALSE
    /\ notifTitle = options.taskTitle
    /\ sosSending = FALSE
    /\ sosStatus = "Tap to Trigger Emergency"
    /\ sosReset = FALSE
    /\ mapSending = FALSE
    /\ mapSeen = FALSE
    /\ mapStatus = "You are safe"
    /\ mapReset = FALSE
    /\ alerts = [p \in Procs |-> <<>>]
    /\ outcome = [p \in Procs |-> "none"]
    /\ startCalls = [p \in Procs |-> 0]
    /\ stopCalls = [p \in Procs |-> 0]
    /\ timedOut = [p \in Procs |-> FALSE]
    /\ failure = [p \in Procs |-> FALSE]
    /\ rejected = FALSE
    /\ settled = [p \in Procs |-> "none"]
    /\ motion = "none"
    /\ stages = [p \in Procs |-> <<>>]
    /\ lastEvent = "step"
    /\ inRun = FALSE
    /\ runOpened = 0

\* ------------------------------------------- continuations (ctl, ui)
\* Alert.alert(title, ...) in the cycle of p, or its notification update.
Raise(p, title) == alerts' = [alerts EXCEPT ![p] = Append(@, title)]

\* The cycle of p moves on to its next await.
Goto(p, l) ==
    /\ pc' = [pc EXCEPT ![p] = l]
    /\ stages' = [stages EXCEPT ![p] = Append(@, l)]
    /\ UNCHANGED <<isProcessing, trigger, outcome, sosSending, mapSending,
                   rejected>>

\* The async function of p's cycle returns.
Finish(p, out) ==
    /\ pc' = [pc EXCEPT ![p] = "idle"]
    /\ trigger' = [trigger EXCEPT ![p] = None]
    /\ outcome' = [outcome EXCEPT ![p] = out]
    /\ UNCHANGED <<rejected, stages>>

\* (mutant) the callback without isProcessing = false after the await.
BgReturnKeepsFlag(out) ==
    /\ Finish("bg", out)
    /\ UNCHANGED <<isProcessing, sosSending, mapSending>>

\* handleEmergencyCheck has resolved: isProcessing = false.
BgReturn(out) ==
    /\ Finish("bg", out)
    /\ isProcessing' = FALSE
    /\ UNCHANGED <<sosSending, mapSending>>

\* (mutant) handleEmergencyCheck without its try/catch: the error rejects
\* the promise of the sensor callback, before isProcessing = false.
HandleEmergencyCheckRethrow ==
    /\ pc' = [pc EXCEPT !["bg"] = "rejected"]
    /\ rejected' = TRUE
    /\ UNCHANGED <<isProcessing, trigger, outcome, sosSending, mapSending,
                   stages>>
    /\ UNCHANGED ui

\* catch (error) of handleEmergencyCheck.
HandleEmergencyCheckCatch == BgReturn("failed") /\ UNCHANGED ui

\* (mutant) a catch that starts the capture over.
BgAudioCatchRetry == Goto("bg", "start") /\ UNCHANGED ui

\* (mutant) a catch that puts the notification back to its first title.
BgAudioCatchResetsTitle ==
    /\ BgReturn("failed")
    /\ notifTitle' = options.taskTitle
    /\ UNCHANGED <<sosStatus, sosReset, mapStatus, mapReset, alerts>>

\* catch (err) of the service's startAudioAnalysis; handleEmergencyCheck
\* then returns.
BgAudioCatch == BgReturn("failed") /\ UNCHANGED ui

\* (mutant) handleEmergency without setSending(false) on its way out.
SosFinallyKeepsSending(out) ==
    /\ Finish("sos", out)
    /\ UNCHANGED <<isProcessing, sosSending, mapSending>>

\* finally { setSending(false) } of SosScreen.handleEmergency.
SosFinally(out) ==
    /\ Finish("sos", out)
    /\ sosSending' = FALSE
    /\ UNCHANGED <<isProcessing, mapSending>>

\* (mutant) a catch that falls back on the lower-priority alert.
SosCatchAlertSent ==
    /\ SosFinally("failed")
    /\ sosStatus' = "Connection failed"
    /\ Raise("sos", "Alert Sent")
    /\ UNCHANGED <<sosReset, mapStatus, mapReset, notifTitle>>

\* catch (error) of SosScreen.handleEmergency.
SosCatch ==
    /\ SosFinally("failed")
    /\ sosStatus' = "Connection failed"
    /\ Raise("sos", "SOS Failed")
    /\ UNCHANGED <<sosReset, mapStatus, mapReset, notifTitle>>

\* finally { setSending(false) } of MapScreen.handleMotionCheck and
\* MapScreen.handleEmergency.
MapFinally(p, out) ==
    /\ Finish(p, out)
    /\ mapSending' = FALSE
    /\ UNCHANGED <<isProcessing, sosSending>>

\* The MapScreen cycle p in flight was started by the SOS button.
MapManual(p) == trigger[p] = ZeroSample

\* catch of handleMotionCheck (logs) and of MapScreen.handleEmergency.
MapCheckCatch(p) ==
    /\ MapFinally(p, "failed")
    /\ mapStatus' = IF MapManual(p) THEN "Connection failed" ELSE mapStatus
    /\ UNCHANGED <<sosStatus, sosReset, mapReset, notifTitle, alerts>>

\* catch (err) of MapScreen.startAudioAnalysis; the caller then returns.
MapAudioCatch(p) == MapFinally(p, "failed") /\ UNCHANGED ui

\* An exception raised at the await p is suspended at reaches its handler.
Throw(p) ==
    CASE p = "bg" /\ pc[p] = "checkMotion" -> HandleEmergencyCheckCatch
      [] p = "bg" /\ pc[p] # "checkMotion" -> BgAudioCatch
      [] p = "sos" -> SosCatch
      [] p \in MapSlots /\ pc[p] = "checkMotion" -> MapCheckCatch(p)
      [] p \in MapSlots /\ pc[p] # "checkMotion" -> MapAudioCatch(p)

\* startAudioAnalysis of MapScreen up to its first await.
MapStartAudioAnalysis(p, st) ==
    /\ Goto(p, IF platform = "android" THEN "perm" ELSE "start")
    /\ mapStatus' = st
    /\ UNCHANGED <<sosStatus, sosReset, mapReset, notifTitle, alerts>>

\* (mutant) handleEmergencyCheck going on to the capture on any answer,
\* as MapScreen.handleEmergency does (if (response)).
BgMotionAnswerIgnored(payload) == Goto("bg", "start") /\ UNCHANGED ui

\* if (response.anomaly_detected) await startAudioAnalysis() of
\* handleEmergencyCheck; else it returns.
BgMotionAnswer(payload) ==
    IF payload.flag THEN Goto("bg", "start") /\ UNCHANGED ui
    ELSE BgReturn("nomotion") /\ UNCHANGED ui

\* The code after await SafetyService.checkMotion(...).
CheckMotionResolved(p, payload) ==
    CASE p = "bg" ->
           IF payload = None THEN HandleEmergencyCheckCatch
           ELSE BgMotionAnswer(payload)
      [] p \in MapSlots /\ MapManual(p) ->
           IF payload = None
           THEN MapFinally(p, "nomotion") /\ UNCHANGED ui
           ELSE MapStartAudioAnalysis(p, mapStatus)
      [] p \in MapSlots /\ ~MapManual(p) ->
           IF payload = None THEN MapCheckCatch(p)
           ELSE IF payload.flag
           THEN MapStartAudioAnalysis(p, "Analyzing audio environment...")
           ELSE /\ MapFinally(p, "nomotion")
                /\ mapStatus' = "Movement cleared"
                /\ mapReset' = TRUE
                /\ UNCHANGED <<sosStatus, sosReset, notifTitle, alerts>>

\* The code after await SafetyService.analyzeAudio(...) and, in SosScreen,
\* await SafetyService.detectEmergency(...).
EvalResolved(p, payload) ==
    CASE p = "bg" ->
           IF payload = None THEN BgAudioCatch
           ELSE IF payload.flag THEN Goto("bg", "notify") /\ UNCHANGED ui
           ELSE BgReturn("clear") /\ UNCHANGED ui
      [] p = "sos" ->
           IF payload = None THEN SosCatch
           ELSE IF payload.flag
           THEN /\ SosFinally("emergency")
                /\ Raise("sos", "Emergency Triggered")
                /\ sosStatus' = "EMERGENCY ACTIVE"
                /\ UNCHANGED <<sosReset, mapStatus, mapReset, notifTitle>>
           ELSE IF payload.score > 4
           THEN /\ SosFinally("lowprio")
                /\ sosStatus' = "Potential Risk Detected"
                /\ Raise("sos", "Alert Sent")
                /\ UNCHANGED <<sosReset, mapStatus, mapReset, notifTitle>>
           ELSE /\ SosFinally("clear")
                /\ sosStatus' = "Environment looks safe"
                /\ sosReset' = TRUE
                /\ UNCHANGED <<mapStatus, mapReset, notifTitle, alerts>>
      [] p \in MapSlots ->
           IF payload = None THEN MapAudioCatch(p)
           ELSE IF payload.flag
           THEN /\ MapFinally(p, "emergency")
                /\ Raise(p, "Emergency Triggered")
                /\ mapStatus' = "Emergency Alert Active"
                /\ UNCHANGED <<sosStatus, sosReset, mapReset, notifTitle>>
           ELSE /\ MapFinally(p, "clear")
                /\ mapStatus' = "Environment looks safe"
                /\ mapReset' = TRUE
                /\ UNCHANGED <<sosStatus, sosReset, notifTitle, alerts>>

\* request() returned payload to the caller suspended on it.
Resolved(p, payload) ==
    IF pc[p] = "checkMotion" THEN CheckMotionResolved(p, payload)
    ELSE EvalResolved(p, payload)

\* Reading a property of the payload throws (the payload is null).
PayloadThrows(p, payload) ==
    payload = None /\ ~(p \in MapSlots /\ pc[p] = "checkMotion" /\ MapManual(p))

\* ---------------------------------------------------- observers (obs)
Observe(p, failed, aborted) ==
    /\ failure' = [failure EXCEPT ![p] = @ \/ failed]
    /\ timedOut' = [timedOut EXCEPT ![p] = @ \/ (aborted /\ pc[p] = "eval")]
    /\ lastEvent' = "step"
    /\ UNCHANGED <<inRun, runOpened>>

\* The request() call of p settles in the way how.
Settles(p, how) == settled' = [settled EXCEPT ![p] = how]

\* request() returns payload to its caller if returns holds: the answer to
\* the motion check of the background cycle is noted.
Answers(p, returns, payload) ==
    motion' = IF p = "bg" /\ pc[p] = "checkMotion" /\ returns /\ payload # None
              THEN IF payload.flag THEN "true" ELSE "false"
              ELSE motion

\* A cycle of p opens: its observers start afresh.
ObserveOpen(p) ==
    /\ settled' = [settled EXCEPT ![p] = "none"]
    /\ motion' = IF p = "bg" THEN "none" ELSE motion
    /\ failure' = [failure EXCEPT ![p] = FALSE]
    /\ timedOut' = [timedOut EXCEPT ![p] = FALSE]

\* ----------------------------------------------------------- request
\* The argument of SafetyService.checkMotion.
MotionCheckRequest(s) == [accelerometer |-> s, gyroscope |-> ZeroSample]

\* The argument of the evaluation call: of SafetyService.analyzeAudio in the
\* background service and in MapScreen (location: currentLocation or 0, 0),
\* of SafetyService.detectEmergency in SosScreen.
EvalRequest(p, loc) ==
    CASE p = "bg" -> [audio_mfcc |-> Mfcc, location |-> <<0, 0>>]
      [] p \in MapSlots -> [audio_mfcc |-> Mfcc,
                       location |-> IF loc = None THEN <<0, 0>> ELSE loc]
      [] p = "sos" -> [accelerometer_data |-> ZeroSample,
                       audio_data |-> [mfcc |-> Mfcc],
                       latitude |-> 0, longitude |-> 0]

\* request() up to await fetch(...): setTimeout(() => controller.abort()).
StartRequest(p, data) ==
    /\ req' = [req EXCEPT ![p] = "fetch"]
    /\ timerPending' = [timerPending EXCEPT ![p] = TRUE]
    /\ respOk' = [respOk EXCEPT ![p] = FALSE]
    /\ body' = [body EXCEPT ![p] = data]

\* (mutant) request() without the clearTimeout(id) of its catch block.
SettleRequestKeepsTimer(p) ==
    /\ req' = [req EXCEPT ![p] = "none"]
    /\ respOk' = [respOk EXCEPT ![p] = FALSE]
    /\ body' = [body EXCEPT ![p] = None]
    /\ UNCHANGED timerPending

\* request() settles; clearTimeout(id) has run on the way.
SettleRequest(p) ==
    /\ req' = [req EXCEPT ![p] = "none"]
    /\ timerPending' = [timerPending EXCEPT ![p] = FALSE]
    /\ respOk' = [respOk EXCEPT ![p] = FALSE]
    /\ body' = [body EXCEPT ![p] = None]

\* fetch resolves with a response (status line and headers received):
\* clearTimeout(id), then parseJson awaits response.text().
FetchResolve(p, ok) ==
    /\ req[p] = "fetch"
    /\ req' = [req EXCEPT ![p] = "body"]
    /\ timerPending' = [timerPending EXCEPT ![p] = FALSE]
    /\ respOk' = [respOk EXCEPT ![p] = ok]
    /\ Observe(p, FALSE, FALSE)
    /\ UNCHANGED <<body, ctl, ui, rec, env, svc, micGranted, settled, motion>>

\* fetch rejects (transport error): catch, clearTimeout(id), throw.
FetchFail(p) ==
    /\ req[p] = "fetch"
    /\ SettleRequest(p)
    /\ Throw(p)
    /\ Observe(p, TRUE, FALSE)
    /\ Settles(p, "transport")
    /\ UNCHANGED motion
    /\ UNCHANGED <<rec, env, svc, micGranted>>

\* (mutant) request() answering an abort with a default negative payload
\* instead of throwing.
TimerFireAsClear(p) ==
    /\ timerPending[p]
    /\ req[p] # "none"
    /\ SettleRequest(p)
    /\ Resolved(p, [flag |-> FALSE, score |-> 4])
    /\ Observe(p, TRUE, TRUE)
    /\ Settles(p, "abort")
    /\ UNCHANGED motion
    /\ UNCHANGED <<rec, env, svc, micGranted>>

\* The abort timer fires: controller.abort() rejects the pending call.
TimerFire(p) ==
    /\ timerPending[p]
    /\ req[p] # "none"
    /\ SettleRequest(p)
    /\ Throw(p)
    /\ Observe(p, TRUE, TRUE)
    /\ Settles(p, "abort")
    /\ UNCHANGED motion
    /\ UNCHANGED <<rec, env, svc, micGranted>>

\* (mutant) request() without if (!response.ok): the payload of any response
\* is returned.
BodyReadAnyStatus(p, payload) ==
    /\ req[p] = "body"
    /\ SettleRequest(p)
    /\ IF PayloadThrows(p, payload) THEN Throw(p) ELSE Resolved(p, payload)
    /\ Observe(p, PayloadThrows(p, payload), FALSE)
    /\ Settles(p, IF respOk[p] THEN "ok" ELSE "status")
    /\ Answers(p, TRUE, payload)
    /\ UNCHANGED <<rec, env, svc, micGranted>>

\* response.text() resolves: parseJson returns the payload, and request
\* throws for a response that is not ok and returns the payload otherwise.
BodyRead(p, payload) ==
    /\ req[p] = "body"
    /\ SettleRequest(p)
    /\ IF ~respOk[p] \/ PayloadThrows(p, payload) THEN Throw(p)
       ELSE Resolved(p, payload)
    /\ Observe(p, ~respOk[p] \/ PayloadThrows(p, payload), FALSE)
    /\ Settles(p, IF respOk[p] THEN "ok" ELSE "status")
    /\ Answers(p, respOk[p], payload)
    /\ UNCHANGED <<rec, env, svc, micGranted>>

\* response.text() rejects (the connection drops while the body is read).
BodyFail(p) ==
    /\ req[p] = "body"
    /\ SettleRequest(p)
    /\ Throw(p)
    /\ Observe(p, TRUE, FALSE)
    /\ Settles(p, "body")
    /\ UNCHANGED motion
    /\ UNCHANGED <<rec, env, svc, micGranted>>

\* ----------------------------------------------------- audio capture
\* PermissionsAndroid.request(RECORD_AUDIO) resolves.
PermResult(p, granted) ==
    /\ pc[p] = "perm"
    /\ micGranted => granted
    /\ micGranted' = granted
    /\ IF granted
       THEN /\ Goto(p, "start")
            /\ sosStatus' = IF p = "sos" THEN "Recording audio (3s)..."
                            ELSE sosStatus
            /\ UNCHANGED <<sosReset, mapStatus, mapReset, notifTitle, alerts>>
       ELSE /\ IF p = "sos"
               THEN SosFinally("denied") /\ Raise(p, "Permission Error")
               ELSE MapFinally(p, "denied") /\ UNCHANGED alerts
            /\ UNCHANGED <<sosStatus, sosReset, mapStatus, mapReset,
                           notifTitle>>
    /\ Observe(p, ~granted, FALSE)
    /\ UNCHANGED <<rec, net, env, svc, settled, motion>>

\* AudioRecord.init(options); AudioRecord.start(); then the 3 s sleep.
StartOk(p) ==
    /\ pc[p] = "start"
    /\ Goto(p, "sleep")
    /\ recording' = TRUE
    /\ startCalls' = [startCalls EXCEPT ![p] = @ + 1]
    /\ Observe(p, FALSE, FALSE)
    /\ UNCHANGED <<stopCalls, ui, net, env, svc, micGranted, settled, motion>>

\* AudioRecord.init or AudioRecord.start throws.
StartThrow(p) ==
    /\ pc[p] = "start"
    /\ Throw(p)
    /\ startCalls' = [startCalls EXCEPT ![p] = @ + 1]
    /\ Observe(p, TRUE, FALSE)
    /\ UNCHANGED <<recording, stopCalls, net, env, svc, micGranted, settled, motion>>

\* The 3 s timer fires: AudioRecord.stop() is called and awaited. (Timers
\* fire in the order they fall due: a status timer of the screen, set before
\* this one and for no longer, has fired.)
SleepDone(p) ==
    /\ pc[p] = "sleep"
    /\ p = "sos" => ~sosReset
    /\ p \in MapSlots => ~mapReset
    /\ Goto(p, "stop")
    /\ stopCalls' = [stopCalls EXCEPT ![p] = @ + 1]
    /\ Observe(p, FALSE, FALSE)
    /\ UNCHANGED <<recording, startCalls, ui, net, env, svc, micGranted, settled, motion>>

\* AudioRecord.stop() resolves with the file: extractMFCC is awaited.
StopDone(p) ==
    /\ pc[p] = "stop"
    /\ Goto(p, "extract")
    /\ recording' = FALSE
    /\ Observe(p, FALSE, FALSE)
    /\ UNCHANGED <<startCalls, stopCalls, ui, net, env, svc, micGranted, settled, motion>>

\* AudioRecord.stop() rejects.
StopFail(p) ==
    /\ pc[p] = "stop"
    /\ Throw(p)
    /\ Observe(p, TRUE, FALSE)
    /\ UNCHANGED <<rec, net, env, svc, micGranted, settled, motion>>

\* extractMFCC resolves: the evaluation request is sent.
ExtractDone(p) ==
    /\ pc[p] = "extract"
    /\ Goto(p, "eval")
    /\ \E loc \in IF p \in MapSlots THEN Locations ELSE {None} :
           StartRequest(p, EvalRequest(p, loc))
    /\ sosStatus' = IF p = "sos" THEN "Analyzing threat level..." ELSE sosStatus
    /\ Observe(p, FALSE, FALSE)
    /\ UNCHANGED <<sosReset, mapStatus, mapReset, notifTitle, alerts, rec,
                   env, svc, micGranted, settled, motion>>

\* extractMFCC rejects.
ExtractFail(p) ==
    /\ pc[p] = "extract"
    /\ Throw(p)
    /\ Observe(p, TRUE, FALSE)
    /\ UNCHANGED <<rec, net, env, svc, micGranted, settled, motion>>

\* ------------------------------------------------ background service
\* (mutant) the callback without if (isProcessing) return.
OpensUnguarded(s) == AboveThreshold(s)

\* The subscription callback goes on to handleEmergencyCheck.
Opens(s) == ~isProcessing /\ AboveThreshold(s)

\* accelerometer.subscribe(async ({ x, y, z }) => ...) receives a sample.
BgSample(s) ==
    LET above == SampleClass(s) = "above"
        opened == IF above /\ inRun THEN runOpened ELSE 0
    IN  /\ subscriptions > 0
        /\ lastEvent' = SampleClass(s)
        /\ inRun' = above
        /\ IF Opens(s)
           THEN /\ opened < MaxRun
                /\ runOpened' = opened + 1
                /\ isProcessing' = TRUE
                /\ pc' = [pc EXCEPT !["bg"] = "checkMotion"]
                /\ stages' = [stages EXCEPT !["bg"] = <<"checkMotion">>]
                /\ trigger' = [trigger EXCEPT !["bg"] = s]
                /\ outcome' = [outcome EXCEPT !["bg"] = "none"]
                /\ startCalls' = [startCalls EXCEPT !["bg"] = 0]
                /\ stopCalls' = [stopCalls EXCEPT !["bg"] = 0]
                /\ StartRequest("bg", MotionCheckRequest(s))
                /\ ObserveOpen("bg")
                /\ alerts' = [alerts EXCEPT !["bg"] = <<>>]
                /\ UNCHANGED <<sosSending, mapSending, rejected, recording>>
           ELSE /\ runOpened' = opened
                /\ UNCHANGED <<isProcessing, pc, trigger, outcome, sosSending,
                               mapSending, rejected, stages, rec, net, timedOut,
                               failure, alerts, settled, motion>>
        /\ UNCHANGED <<sosStatus, sosReset, mapStatus, mapReset, notifTitle, env, svc, micGranted>>

\* BackgroundService.updateNotification resolves.
NotifyDone ==
    /\ pc["bg"] = "notify"
    /\ BgReturn("emergency")
    /\ notifTitle' = "SOS ACTIVATED"
    /\ Raise("bg", "SOS ACTIVATED")
    /\ Observe("bg", FALSE, FALSE)
    /\ UNCHANGED <<sosStatus, sosReset, mapStatus, mapReset, rec, net, env, svc, micGranted, settled, motion>>

\* BackgroundService.updateNotification rejects.
NotifyFail ==
    /\ pc["bg"] = "notify"
    /\ Throw("bg")
    /\ Observe("bg", TRUE, FALSE)
    /\ UNCHANGED <<rec, net, env, svc, micGranted, settled, motion>>

\* BackgroundService.start(veryIntensiveTask, options) shows the
\* notification of options and runs the task, which subscribes to the
\* accelerometer and enters its keep-alive loop.
StartTask ==
    /\ running' = TRUE
    /\ subscriptions' = subscriptions + 1
    /\ looping' = looping + 1
    /\ notifTitle' = options.taskTitle
    /\ lastEvent' = "step"
    /\ UNCHANGED <<ctl, rec, net, env, settled, motion, sosStatus, sosReset, mapStatus,
                   mapReset, alerts, timedOut, failure, inRun, runOpened>>

\* BackgroundSafetyRunner.start(): starts the task if the service is not
\* running.
RunnerStart ==
    /\ ~running
    /\ subscriptions < MaxTasks
    /\ StartTask
    /\ UNCHANGED micGranted

\* The init effect of App, run once when App is mounted. On Android
\* requestMultiple resolves (mic, loc: RECORD_AUDIO and ACCESS_FINE_LOCATION
\* are granted; a permission held already is granted) and the service is
\* started if both are; on any other platform the service is started with
\* no permission asked for.
AppInit(mic, loc) ==
    /\ ~running
    /\ subscriptions = 0
    /\ IF platform = "android"
       THEN /\ micGranted => mic
            /\ micGranted' = mic
            /\ IF mic /\ loc THEN StartTask
               ELSE UNCHANGED <<ctl, ui, rec, net, env, obs, svc, settled, motion>>
       ELSE /\ UNCHANGED micGranted
            /\ StartTask

\* BackgroundSafetyRunner.stop(): await BackgroundService.stop().
RunnerStop ==
    /\ running
    /\ running' = FALSE
    /\ lastEvent' = "step"
    /\ UNCHANGED <<subscriptions, looping, ctl, ui, rec, net, env, micGranted, settled, motion,
                   timedOut, failure, inRun, runOpened>>

\* A run of veryIntensiveTask wakes from sleep(1000) and finds
\* BackgroundService.isRunning() false: its loop ends and so does the
\* executor of the promise the task awaits. Nothing ever calls resolve, so
\* the task stays at that await: subscription.unsubscribe() is not reached.
TaskLoopExit ==
    /\ looping > 0
    /\ ~running
    /\ looping' = looping - 1
    /\ lastEvent' = "step"
    /\ UNCHANGED <<running, subscriptions, ctl, ui, rec, net, env, micGranted, settled, motion,
                   timedOut, failure, inRun, runOpened>>

\* The calls of the host application.
BgHost == RunnerStart \/ RunnerStop

\* The steps of a background cycle that wait on nothing outside the
\* application: timers, the synchronous calls and the feature extraction
\* (utils/AudioUtils, which computes its vector without any I/O).
BgInternal ==
    \/ TimerFire("bg")
    \/ StartOk("bg")
    \/ StartThrow("bg")
    \/ SleepDone("bg")
    \/ ExtractDone("bg")
    \/ ExtractFail("bg")

\* The steps that are answers of the network, the recorder and the
\* notification service.
BgExternal ==
    \/ \E ok \in BOOLEAN : FetchResolve("bg", ok)
    \/ FetchFail("bg")
    \/ \E payload \in Payloads : BodyRead("bg", payload)
    \/ BodyFail("bg")
    \/ StopDone("bg")
    \/ StopFail("bg")
    \/ NotifyDone
    \/ NotifyFail

\* The steps of the detection cycles of the service.
BgCycle ==
    \/ \E s \in Samples : BgSample(s)
    \/ BgInternal
    \/ BgExternal

\* The service under a host that starts and stops it.
BgNext ==
    \/ BgHost
    \/ TaskLoopExit
    \/ BgCycle

SpecBg == Init /\ [][BgNext]_vars

\* The runtime runs every task that is ready: a timer that is due fires and
\* a call that waits on nothing returns.
FairBg == SpecBg /\ WF_vars(BgInternal) /\ WF_vars(TaskLoopExit)

\* Moreover every external call eventually returns or fails.
LiveBg == FairBg /\ WF_vars(BgExternal)

\* --------------------------------------------------------- SosScreen
\* onPress of the SOS button (disabled while sending): handleEmergency up
\* to its first await.
SosPress ==
    /\ tab = "sos"
    /\ ~sosSending
    /\ sosSending' = TRUE
    /\ pc' = [pc EXCEPT !["sos"] = IF platform = "android" THEN "perm"
                                   ELSE "start"]
    /\ stages' = [stages EXCEPT !["sos"] = IF platform = "android"
                                           THEN <<"perm">> ELSE <<"start">>]
    /\ sosStatus' = IF platform = "android" THEN "Initializing sensors..."
                    ELSE "Recording audio (3s)..."
    /\ trigger' = [trigger EXCEPT !["sos"] = ZeroSample]
    /\ outcome' = [outcome EXCEPT !["sos"] = "none"]
    /\ startCalls' = [startCalls EXCEPT !["sos"] = 0]
    /\ stopCalls' = [stopCalls EXCEPT !["sos"] = 0]
    /\ ObserveOpen("sos")
    /\ alerts' = [alerts EXCEPT !["sos"] = <<>>]
    /\ lastEvent' = "step"
    /\ UNCHANGED <<isProcessing, mapSending, rejected, recording,
                   sosReset, mapStatus, mapReset, notifTitle, net, env, svc, micGranted,
                   inRun, runOpened>>

\* setTimeout(() => setStatus('Tap to Trigger Emergency'), 3000) fires.
SosStatusTimer ==
    /\ sosReset
    /\ sosReset' = FALSE
    /\ sosStatus' = "Tap to Trigger Emergency"
    /\ lastEvent' = "step"
    /\ UNCHANGED <<ctl, rec, net, env, svc, micGranted, settled, motion, mapStatus, mapReset, notifTitle,
                   alerts, timedOut, failure, inRun, runOpened>>

SosInternal ==
    \/ SosStatusTimer
    \/ TimerFire("sos")
    \/ StartOk("sos")
    \/ StartThrow("sos")
    \/ SleepDone("sos")

SosExternal ==
    \/ SosPress
    \/ \E granted \in BOOLEAN : PermResult("sos", granted)
    \/ \E ok \in BOOLEAN : FetchResolve("sos", ok)
    \/ FetchFail("sos")
    \/ \E payload \in Payloads : BodyRead("sos", payload)
    \/ BodyFail("sos")
    \/ StopDone("sos")
    \/ StopFail("sos")
    \/ ExtractDone("sos")
    \/ ExtractFail("sos")

SosNext == SosInternal \/ SosExternal

\* --------------------------------------------------------- MapScreen
\* A call of MapScreen.handleMotionCheck or MapScreen.handleEmergency
\* starts as activation p: setSending(true), setStatus, and the motion check
\* is requested.
MapOpen(p, s, st) ==
    /\ mapSending' = TRUE
    /\ mapStatus' = st
    /\ pc' = [pc EXCEPT ![p] = "checkMotion"]
    /\ stages' = [stages EXCEPT ![p] = <<"checkMotion">>]
    /\ trigger' = [trigger EXCEPT ![p] = s]
    /\ outcome' = [outcome EXCEPT ![p] = "none"]
    /\ startCalls' = [startCalls EXCEPT ![p] = 0]
    /\ stopCalls' = [stopCalls EXCEPT ![p] = 0]
    /\ StartRequest(p, MotionCheckRequest(s))
    /\ ObserveOpen(p)
    /\ alerts' = [alerts EXCEPT ![p] = <<>>]
    /\ lastEvent' = "step"
    /\ UNCHANGED <<isProcessing, sosSending, rejected, recording,
                   sosStatus, sosReset, mapReset, notifTitle, env, svc,
                   micGranted, inRun, runOpened>>

\* The activation a call of MapScreen starts as: the first one free.
MapFree(p) ==
    /\ pc[p] = "idle"
    /\ p = "map2" => pc["map"] # "idle"

\* The MapScreen subscription receives a sample that passes
\* magnitude > 15 && !sending, and handleMotionCheck its own guard
\* if (sending) return: both read the sending of the render whose effect
\* subscribed the callback.
MapSample(s) ==
    /\ tab = "map"
    /\ AboveThreshold(s)
    /\ ~mapSeen
    /\ \E p \in MapSlots : MapFree(p) /\ MapOpen(p, s, "Checking potential fall...")

\* onPress of the SOS button of MapScreen (disabled={sending} of the last
\* render).
MapPress ==
    /\ tab = "map"
    /\ ~mapSeen
    /\ \E p \in MapSlots : MapFree(p) /\ MapOpen(p, ZeroSample, "Sending SOS...")

\* React re-renders MapScreen after setSending and runs the effect of
\* [sending] again: the old subscription is removed and a callback that
\* closes over the new sending is subscribed.
MapRender ==
    /\ mapSeen # mapSending
    /\ mapSeen' = mapSending
    /\ lastEvent' = "step"
    /\ UNCHANGED <<ctl, ui, rec, net, platform, tab, svc, micGranted, settled, motion,
                   timedOut, failure, inRun, runOpened>>

\* setTimeout(() => setStatus('You are safe'), ...) fires.
MapStatusTimer ==
    /\ mapReset
    /\ mapReset' = FALSE
    /\ mapStatus' = "You are safe"
    /\ lastEvent' = "step"
    /\ UNCHANGED <<ctl, rec, net, env, svc, micGranted, settled, motion, sosStatus,
                   sosReset, notifTitle, alerts, timedOut, failure, inRun,
                   runOpened>>

MapInternal ==
    \/ MapStatusTimer
    \/ \E p \in MapSlots : TimerFire(p)
    \/ \E p \in MapSlots : StartOk(p)
    \/ \E p \in MapSlots : StartThrow(p)
    \/ \E p \in MapSlots : SleepDone(p)

MapExternal ==
    \/ \E s \in Samples : MapSample(s)
    \/ MapPress
    \/ \E p \in MapSlots, granted \in BOOLEAN : PermResult(p, granted)
    \/ \E p \in MapSlots, ok \in BOOLEAN : FetchResolve(p, ok)
    \/ \E p \in MapSlots : FetchFail(p)
    \/ \E p \in MapSlots, payload \in Payloads : BodyRead(p, payload)
    \/ \E p \in MapSlots : BodyFail(p)
    \/ \E p \in MapSlots : StopDone(p)
    \/ \E p \in MapSlots : StopFail(p)
    \/ \E p \in MapSlots : ExtractDone(p)
    \/ \E p \in MapSlots : ExtractFail(p)

MapNext == MapInternal \/ MapExternal

\* --------------------------------------------------------------- App
\* A tab button is pressed: the screen shown is unmounted and the screen of
\* tab t mounted with its initial state. (Tabs are switched between cycles
\* of the screens.)
SetTab(t) ==
    /\ t # tab
    /\ pc["sos"] = "idle"
    /\ \A p \in MapSlots : pc[p] = "idle"
    /\ tab' = t
    /\ mapSeen' = FALSE
    /\ sosStatus' = "Tap to Trigger Emergency"
    /\ sosReset' = FALSE
    /\ mapStatus' = "You are safe"
    /\ mapReset' = FALSE
    /\ outcome' = [p \in Procs |-> IF p = "bg" THEN outcome[p] ELSE "none"]
    /\ startCalls' = [p \in Procs |-> IF p = "bg" THEN startCalls[p] ELSE 0]
    /\ stopCalls' = [p \in Procs |-> IF p = "bg" THEN stopCalls[p] ELSE 0]
    /\ failure' = [p \in Procs |-> p = "bg" /\ failure[p]]
    /\ timedOut' = [p \in Procs |-> p = "bg" /\ timedOut[p]]
    /\ settled' = [p \in Procs |-> IF p = "bg" THEN settled[p] ELSE "none"]
    /\ UNCHANGED motion
    /\ alerts' = [p \in Procs |-> IF p = "bg" THEN alerts[p] ELSE <<>>]
    /\ stages' = [p \in Procs |-> IF p = "bg" THEN stages[p] ELSE <<>>]
    /\ lastEvent' = "step"
    /\ UNCHANGED <<isProcessing, pc, trigger, sosSending, mapSending, rejected,
                   recording, net, platform, notifTitle, inRun, runOpened,
                   svc, micGranted>>

Tabs == {"home", "map", "sos"}

\* The application: App starts the background service once it is mounted
\* (and nothing in it calls BackgroundSafetyRunner.stop), the service runs
\* its cycles, and so does the screen of the tab shown.
Events ==
    \/ \E mic, loc \in BOOLEAN : AppInit(mic, loc)
    \/ BgCycle
    \/ SosNext
    \/ MapNext
    \/ \E t \in Tabs : SetTab(t)

\* A re-render of MapScreen that is due happens before the next event.
Next ==
    \/ MapRender
    \/ mapSeen = mapSending /\ Events

\* MapScreen alone, its re-render taking its turn among the events: the
\* sensor and the button can be served between setSending and the re-render.
MapRaceNext ==
    \/ MapRender
    \/ MapNext
    \/ \E t \in Tabs : SetTab(t)

SpecMapRace == Init /\ [][MapRaceNext]_vars

Spec == Init /\ [][Next]_vars

\* ------------------------------------------------ delivery of a decision
\* The statements with which source p alerts the user of the decision of
\* its cycle, run once more on the decision of the cycle that is just over
\* (what a retried delivery executes): updateNotification in the background
\* service, Alert.alert and setStatus in the screens. None of them looks at
\* what has been shown already.
Redeliver(p) ==
    /\ pc[p] = "idle"
    /\ outcome[p] \in {"emergency", "lowprio"}
    /\ alerts[p] # <<>>
    /\ Len(alerts[p]) < MaxDeliver
    /\ Raise(p, alerts[p][1])
    /\ notifTitle' = IF p = "bg" THEN "SOS ACTIVATED" ELSE notifTitle
    /\ sosStatus' = IF p # "sos" THEN sosStatus
                    ELSE IF outcome[p] = "emergency" THEN "EMERGENCY ACTIVE"
                    ELSE "Potential Risk Detected"
    /\ mapStatus' = IF p \in MapSlots THEN "Emergency Alert Active"
                    ELSE mapStatus
    /\ lastEvent' = "step"
    /\ UNCHANGED <<ctl, rec, net, env, svc, micGranted, settled, motion, sosReset, mapReset, timedOut,
                   failure, inRun, runOpened>>

\* The application with deliveries repeated.
NotifyNext ==
    \/ Next
    \/ \E p \in Procs : Redeliver(p)

SpecNotify == Init /\ [][NotifyNext]_vars

\* ============================================================ claims
\* What the background cycle consists of: the flag, its position, its
\* request, the recorder and the notification.
bgState == <<isProcessing, pc["bg"], trigger["bg"], req["bg"], timerPending["bg"],
             respOk["bg"], recording, startCalls["bg"], stopCalls["bg"],
             outcome["bg"], notifTitle>>

\* The cycles in a non-Idle state.
InFlight == {p \in Procs : pc[p] # "idle"}

\* C1 (as claimed): whatever the interleaving of the trigger sources, at
\* most one detection cycle is in a non-Idle state at any instant.
C1_MutualExclusion == Cardinality(InFlight) <= 1

\* C2: a background sample that arrives while isProcessing is true changes
\* nothing, whatever its magnitude, and nothing is queued: a cycle opens
\* only in the step that delivers a sample, with isProcessing false before.
C2_DroppedWhileProcessing ==
    [][ /\ (isProcessing /\ lastEvent' # "step") => UNCHANGED bgState
        /\ (pc["bg"] # "checkMotion" /\ pc'["bg"] = "checkMotion")
              => (~isProcessing /\ lastEvent' # "step")
        /\ (isProcessing /\ ~isProcessing')
              => (pc'["bg"] = "idle" /\ req'["bg"] = "none") ]_vars

\* C2 witness: a sample above the threshold was delivered during the
\* capture of the cycle in flight, which goes on.
C2_Witness ==
    /\ isProcessing
    /\ pc["bg"] = "sleep"
    /\ lastEvent = "above"
    /\ runOpened = 1

\* C3: the background monitor opens a cycle only on a sample with
\* x*x + y*y + z*z > 225: a sample at exactly 225, or lower, changes nothing
\* in any state, and every cycle in flight was triggered by a sample above.
C3_ThresholdExclusive ==
    [][ /\ lastEvent' \in {"at", "below"} => UNCHANGED bgState
        /\ isProcessing' => /\ trigger'["bg"] \in Samples
                            /\ SumSq(trigger'["bg"]) > Threshold * Threshold
        /\ (~isProcessing /\ isProcessing') => lastEvent' = "above" ]_vars

\* C3 witness: a sample of magnitude exactly 15 was delivered in Idle and no
\* cycle is open.
C3_Witness ==
    /\ lastEvent = "at"
    /\ ~isProcessing
    /\ pc["bg"] = "idle"
    /\ outcome["bg"] = "none"

\* C4 (as claimed): an excursion above the threshold opens exactly one
\* cycle, however long the run.
C4_OncePerExcursion == runOpened <= 1

\* C4 (amended): a sample of a run opens a cycle exactly when it is received
\* with no cycle in flight: the first one received in Idle opens a cycle, the
\* later ones are dropped while that cycle is in flight, and one received
\* after the cycle has returned to Idle opens the next cycle.
C4_OncePerCycleOfExcursion ==
    [][ lastEvent' = "above" =>
          LET opened == IF inRun THEN runOpened ELSE 0
          IN  IF isProcessing
              THEN runOpened' = opened /\ UNCHANGED bgState
              ELSE /\ runOpened' = opened + 1
                   /\ isProcessing'
                   /\ pc'["bg"] = "checkMotion" ]_vars

\* C4 witness: the second cycle of one excursion is in flight.
C4_Witness == runOpened = 2 /\ isProcessing /\ inRun

\* C5: every cycle opened by the background service returns to Idle: once
\* isProcessing is true it is eventually false again, with the callback
\* back at rest, whatever the outcome of each stage, provided every timer
\* fires and every external call returns or fails.
C5_CycleReturnsToIdle ==
    isProcessing ~> (~isProcessing /\ pc["bg"] = "idle")

\* C5 witness: a cycle that went through every stage is over.
C5_Witness ==
    /\ ~isProcessing
    /\ pc["bg"] = "idle"
    /\ outcome["bg"] = "emergency"
    /\ notifTitle = "SOS ACTIVATED"

\* C6 (as claimed): when a cycle is over, AudioRecord.stop has been called
\* as often as AudioRecord.start, on every exit path.
C6_StopPerStart ==
    \A p \in Procs : pc[p] = "idle" => stopCalls[p] = startCalls[p]

\* The stages of the capture.
Capturing == {"start", "sleep", "stop", "extract"}

\* C7 (as claimed): the capture is bounded: a background cycle that is
\* capturing eventually leaves the capture, also when AudioRecord.stop()
\* never answers.
C7_CaptureTimesOut ==
    (pc["bg"] \in Capturing) ~> (pc["bg"] \notin Capturing)

\* C8 (as claimed): a request() that is pending eventually settles, in
\* every phase, by the response or by its abort timer.
C8_RequestSettles ==
    (req["bg"] # "none") ~> (req["bg"] = "none")

\* C9: a cycle whose evaluation call was aborted by the timeout ends through
\* the catch blocks, as Failed and never as Clear; in SosScreen the status
\* is then 'Connection failed'.
C9_TimeoutIsFailure ==
    \A p \in Procs :
        (pc[p] = "idle" /\ timedOut[p]) =>
            /\ outcome[p] = "failed"
            /\ p = "sos" => sosStatus = "Connection failed"

\* C9 witness: the evaluation call of a SosScreen cycle timed out and the
\* cycle is over.
C9_Witness ==
    /\ pc["sos"] = "idle"
    /\ timedOut["sos"]
    /\ stopCalls["sos"] = 1
    /\ sosStatus = "Connection failed"

\* C10: no failure escapes the background coordinator: the promise of the
\* sensor callback never rejects, and a cycle in which a stage failed ends
\* as Failed with isProcessing reset, so that the next trigger is accepted.
C10_NoFailureEscapes ==
    /\ ~rejected
    /\ pc["bg"] # "rejected"
    /\ (pc["bg"] = "idle" /\ failure["bg"]) =>
           (outcome["bg"] = "failed" /\ ~isProcessing)

\* C10 witness: a cycle is over in which a stage after the capture failed
\* (the extraction, the evaluation call or the notification update).
C10_Witness ==
    /\ pc["bg"] = "idle"
    /\ failure["bg"]
    /\ outcome["bg"] = "failed"
    /\ stopCalls["bg"] = 1
    /\ ~timedOut["bg"]
    /\ ~isProcessing

\* What the user is shown at the SOS level: the notification update of the
\* background service and the two dialogs of the screens.
SosLevel == {"SOS ACTIVATED", "Emergency Triggered", "Alert Sent"}

\* The SOS-level alerts the cycle of p has raised.
SosAlerts(p) == {i \in DOMAIN alerts[p] : alerts[p][i] \in SosLevel}

\* The cycle of p has shown the user something about its failure: a dialog,
\* or the status text 'Connection failed' of its screen.
Signalled(p) ==
    \/ alerts[p] # <<>>
    \/ p = "sos" /\ sosStatus = "Connection failed"
    \/ p = "map" /\ mapStatus = "Connection failed"

\* C11 (as claimed): every cycle that has ended as Failed has shown the user
\* a failure notification, whichever trigger source ran it.
C11_FailureIsSignalled ==
    \A p \in Procs : (pc[p] = "idle" /\ outcome[p] = "failed") => Signalled(p)

\* C12: a cycle in which a stage failed raises no SOS-level alert: neither
\* the 'SOS ACTIVATED' notification update nor the 'Emergency Triggered' or
\* 'Alert Sent' dialog is among what it has shown.
C12_FailedNeverAlerts ==
    \A p \in Procs :
        (failure[p] \/ outcome[p] = "failed") => SosAlerts(p) = {}

\* C12 witness: a SosScreen cycle that failed after its capture is over, and
\* its only dialog is 'SOS Failed'.
C12_Witness ==
    /\ pc["sos"] = "idle"
    /\ failure["sos"]
    /\ stopCalls["sos"] = 1
    /\ alerts["sos"] = <<"SOS Failed">>

\* C13 (as claimed): a cycle that was refused the microphone permission ends
\* with exactly one failure notification, its in-progress flag false and
\* AudioRecord.start never called.
C13_DeniedNotifiesOnce ==
    \A p \in Procs :
        (pc[p] = "idle" /\ outcome[p] = "denied") =>
            /\ Len(alerts[p]) = 1
            /\ startCalls[p] = 0
            /\ p = "sos" => ~sosSending
            /\ p = "map" => ~mapSending

\* C14 (as claimed): a cycle that obtained a decision has raised exactly one
\* SOS-level alert if the decision said emergency and none otherwise,
\* whatever the fused risk score.
C14_AlertIffEmergency ==
    \A p \in Procs :
        (pc[p] = "idle" /\ outcome[p] \in {"emergency", "lowprio", "clear"}) =>
            Cardinality(SosAlerts(p)) = IF outcome[p] = "emergency" THEN 1 ELSE 0

\* s is an initial segment of q.
IsPrefix(s, q) == Len(s) <= Len(q) /\ \A i \in DOMAIN s : s[i] = q[i]

\* The stages of a cycle of the background service that runs to its end.
SensorPath ==
    <<"checkMotion", "start", "sleep", "stop", "extract", "eval", "notify">>

\* The ways a cycle of the background service ends.
SensorOutcomes == {"none", "failed", "nomotion", "clear", "emergency"}

\* C15 (as claimed): a manual trigger (the SOS button of SosScreen or of
\* MapScreen) goes through the stages of a sensor-triggered cycle of the
\* background service, in the same order, and ends in one of the same ways.
C15_ManualFollowsSensorPath ==
    /\ IsPrefix(stages["sos"], SensorPath)
    /\ outcome["sos"] \in SensorOutcomes
    /\ MapManual("map") => IsPrefix(stages["map"], SensorPath)

\* C16 (as claimed): every background cycle a trigger has opened reaches the
\* audio capture: none is over without AudioRecord.start among its stages.
C16_TriggerReachesCapture ==
    (pc["bg"] = "idle" /\ stages["bg"] # <<>>) =>
        \E i \in DOMAIN stages["bg"] : stages["bg"][i] = "start"

\* The order of the stages of a cycle, whichever source runs it.
CycleOrder ==
    <<"checkMotion", "perm", "start", "sleep", "stop", "extract", "eval",
      "notify">>

Rank(l) == CHOOSE i \in DOMAIN CycleOrder : CycleOrder[i] = l

\* C17: within a cycle the stages run in the fixed order (capture start,
\* capture stop, extraction, evaluation request, notification), each at most
\* once; a stage is the only one in progress, with at most the one request
\* of that stage pending; and after a stage failed no stage runs any more.
C17_StagesInOrder ==
    \A p \in Procs :
        /\ \A i, j \in DOMAIN stages[p] :
               i < j => Rank(stages[p][i]) < Rank(stages[p][j])
        /\ pc[p] # "idle" => stages[p][Len(stages[p])] = pc[p]
        /\ req[p] # "none" => pc[p] \in {"checkMotion", "eval"}
        /\ failure[p] => pc[p] = "idle"

\* C17 witness: a background cycle that ran through every stage is over.
C17_Witness ==
    /\ pc["bg"] = "idle"
    /\ stages["bg"] = SensorPath
    /\ outcome["bg"] = "emergency"

\* The motion sample a request body carries, if any.
MotionOf(data) ==
    IF "accelerometer" \in DOMAIN data THEN data.accelerometer
    ELSE IF "accelerometer_data" \in DOMAIN data THEN data.accelerometer_data
    ELSE None

\* C18 (as claimed): the evaluation request of a sensor-triggered cycle
\* carries the x, y, z of the sample that triggered the cycle together with
\* the feature vector of its capture.
C18_EvalCarriesEvidence ==
    \A p \in {"bg", "map"} :
        (pc[p] = "eval" /\ trigger[p] \in Samples) =>
            /\ MotionOf(body[p]) = trigger[p]
            /\ body[p].audio_mfcc = Mfcc

\* C19 (as claimed): once BackgroundSafetyRunner.stop() has completed, the
\* subscription of the task is eventually unsubscribed (unless the service
\* has been started again in the meantime).
C19_StopUnsubscribes ==
    (~running) ~> (running \/ subscriptions = 0)

\* C20 (as claimed): once BackgroundSafetyRunner.stop() has completed, no
\* cycle of the service is left in flight with the recorder started:
\* isProcessing is false and the recorder is stopped.
C20_ShutdownLeavesNothing ==
    (~running /\ subscriptions > 0) => (~isProcessing /\ ~recording)

\* The SOS-level alerts of the last cycle of p the user has before them: the
\* one foreground notification, if its title is the SOS one, for the
\* background service; the dialogs raised, for a screen.
Visible(p) ==
    IF p = "bg" THEN (IF notifTitle = "SOS ACTIVATED" THEN 1 ELSE 0)
    ELSE Cardinality(SosAlerts(p))

C22_CaptureNeedsPermission ==
    \A p \in Procs : startCalls[p] > 0 => micGranted

\* C23 (as claimed): whatever the sequence of BackgroundSafetyRunner.start()
\* and stop() calls, at most one accelerometer subscription of the
\* background task is live, and at most one run of the task is kept alive
\* by a running service.
C23_OneSubscription ==
    /\ subscriptions <= 1
    /\ running => looping <= 1

\* C24: the abort timer of a request() call is pending only while its fetch
\* is, and never once the call has settled, whichever way it settled:
\* resolved, response not ok, transport error, abort, failed body read.
C24_TimerCleared ==
    \A p \in Procs :
        /\ req[p] = "none" => ~timerPending[p]
        /\ timerPending[p] => req[p] = "fetch"

\* C24 witness: the evaluation request of a background cycle has settled by
\* a failure while its body was read.
C24_Witness ==
    /\ settled["bg"] = "body"
    /\ stopCalls["bg"] = 1
    /\ req["bg"] = "none"
    /\ ~timerPending["bg"]

\* The ways request() rejects.
Rejections == {"status", "transport", "abort", "body"}

\* C25: a call of request() that met a response that is not ok, a transport
\* error or an abort has rejected: the cycle that made it is over, as
\* Failed and with no SOS-level alert, and was handed no decision.
C25_RejectsUnlessOk ==
    \A p \in Procs :
        settled[p] \in Rejections =>
            /\ pc[p] = "idle"
            /\ outcome[p] = "failed"
            /\ SosAlerts(p) = {}

\* C25 witness: the evaluation request of a SosScreen cycle was answered
\* with a status that is not 2xx.
C25_Witness ==
    /\ settled["sos"] = "status"
    /\ stopCalls["sos"] = 1
    /\ pc["sos"] = "idle"
    /\ sosStatus = "Connection failed"

\* C26: in the background service isProcessing is true exactly while a call
\* of handleEmergencyCheck is pending, however many subscriptions deliver
\* the samples: it is set in the step that accepts the trigger, reset in the
\* step in which that cycle returns, and by no other step.
C26_FlagIffCycle ==
    [][ /\ isProcessing' = (pc'["bg"] # "idle")
        /\ (~isProcessing /\ isProcessing') => lastEvent' = "above"
        /\ (isProcessing /\ ~isProcessing') =>
              (pc["bg"] # "idle" /\ pc'["bg"] = "idle") ]_vars

\* C26 witness: the service was restarted, two subscriptions deliver each
\* sample, and one cycle is in flight: it is recording while a further
\* sample above the threshold has been delivered and dropped.
C26_Witness ==
    /\ subscriptions = 2
    /\ isProcessing
    /\ pc["bg"] = "sleep"
    /\ lastEvent = "above"

\* The calls of MapScreen.handleMotionCheck in flight.
MotionChecks == {p \in MapSlots : pc[p] # "idle" /\ ~MapManual(p)}

\* C27 (as claimed): in MapScreen at most one handleMotionCheck is in flight
\* at any time, also when a second above-threshold sample arrives after
\* setSending(true) and before the re-render and resubscription.
C27_OneMotionCheck == Cardinality(MotionChecks) <= 1

\* C28: once the notification of the background service reads
\* 'SOS ACTIVATED', no step of the running service changes it: it stays in
\* every later state, also after cycles that end Clear or Failed, and the
\* only step that shows another title is a new start of the service, which
\* needs the service to have been stopped.
C28_SosTitleStays ==
    [][(notifTitle = "SOS ACTIVATED" /\ notifTitle' # "SOS ACTIVATED")
          => (~running /\ running')]_vars

\* The service has run without a stop since a cycle set 'SOS ACTIVATED'
\* (a start would have reset the title), and a later cycle, which has shown
\* nothing itself, has ended Failed.
C28_Witness ==
    /\ running
    /\ notifTitle = "SOS ACTIVATED"
    /\ pc["bg"] = "idle"
    /\ outcome["bg"] = "failed"
    /\ alerts["bg"] = <<>>

\* The stages of the background cycle from the capture on.
CaptureStages == {"start", "sleep", "stop", "extract", "eval", "notify"}

\* C29: in a background cycle the recorder is started and analyzeAudio
\* called only after checkMotion has returned anomaly_detected = true to
\* that cycle; a cycle whose motion check failed, timed out or returned
\* false is over with no recorder start, no evaluation and no alert.
C29_CaptureNeedsAnomaly ==
    /\ (\/ startCalls["bg"] > 0
        \/ \E i \in DOMAIN stages["bg"] : stages["bg"][i] \in CaptureStages)
          => motion = "true"
    /\ (pc["bg"] # "checkMotion" /\ stages["bg"] # <<>> /\ motion # "true") =>
          /\ pc["bg"] = "idle"
          /\ outcome["bg"] \in {"nomotion", "failed"}
          /\ stages["bg"] = <<"checkMotion">>
          /\ startCalls["bg"] = 0
          /\ alerts["bg"] = <<>>

\* A background cycle is over after its motion check returned
\* anomaly_detected = false.
C29_Witness ==
    /\ pc["bg"] = "idle"
    /\ motion = "false"
    /\ outcome["bg"] = "nomotion"
    /\ settled["bg"] = "ok"
    /\ startCalls["bg"] = 0

\* C30: in SosScreen sending is true only while a handleEmergency call is
\* in flight, and false once the call is over, whichever way it ended
\* (permission denied, emergency, lower-priority alert, no emergency,
\* thrown error).
C30_SendingOnlyInFlight ==
    /\ sosSending => pc["sos"] # "idle"
    /\ (pc["sos"] = "idle" /\ outcome["sos"] # "none") =>
          /\ ~sosSending
          /\ outcome["sos"] \in {"denied", "emergency", "lowprio", "clear",
                                 "failed"}

\* handleEmergency has returned early on a denied permission.
C30_Witness ==
    /\ pc["sos"] = "idle"
    /\ outcome["sos"] = "denied"
    /\ alerts["sos"] = <<"Permission Error">>
    /\ ~sosSending

====
